---- MODULE Spec2Model ----
(***************************************************************************)
(* Model of pkg/drivers/drivers.go (minikube): the driver version          *)
(* reconciler InstallOrUpdate/download, the disk provisioner               *)
(* MakeDiskImage/createRawDiskImage/fixPermissions, Restart, and the      *)
(* pure function ExtractVMDriverVersion.                                   *)
(*                                                                         *)
(* Text is a sequence of one-character strings.  Byte counts that may     *)
(* exceed 2^31 are little-endian sequences of bytes.                       *)
(***************************************************************************)
EXTENDS Integers, Sequences, FiniteSets, TLC

(***************************************************************************)
(* Text helpers (package strings / regexp as used by the source)           *)
(***************************************************************************)

\* ASCII order of the characters that occur in the modelled texts
CharSeq ==
  << "\t", "\n", "\r", " ", "+", "-", ".",
     "0", "1", "2", "3", "4", "5", "6", "7", "8", "9", ":",
     "a", "b", "c", "d", "e", "f", "g", "h", "i", "j", "k", "l", "m",
     "n", "o", "p", "q", "r", "s", "t", "u", "v", "w", "x", "y", "z" >>

Code(c) == CHOOSE i \in 1..Len(CharSeq) : CharSeq[i] = c

numbers == {"0", "1", "2", "3", "4", "5", "6", "7", "8", "9"}

alphanum ==
  numbers \cup {"-"} \cup
  {"a", "b", "c", "d", "e", "f", "g", "h", "i", "j", "k", "l", "m",
   "n", "o", "p", "q", "r", "s", "t", "u", "v", "w", "x", "y", "z"}

WhiteSpace == {" ", "\t", "\n", "\r"}

\* strings.Index(s, sub): first 1-based position of sub in s, 0 if none
HasAt(s, sub, i) ==
  /\ i + Len(sub) - 1 <= Len(s)
  /\ \A k \in 1..Len(sub) : s[i + k - 1] = sub[k]

Index(s, sub) ==
  IF \E i \in 1..Len(s) : HasAt(s, sub, i)
  THEN CHOOSE i \in 1..Len(s) :
         HasAt(s, sub, i) /\ \A j \in 1..(i - 1) : ~HasAt(s, sub, j)
  ELSE 0

\* the part of s from position i on (s[i-1:] in Go)
From(s, i) == SubSeq(s, i, Len(s))

HasPrefix(s, p) == Len(p) <= Len(s) /\ SubSeq(s, 1, Len(p)) = p

\* strings.TrimPrefix
TrimPrefix(s, p) == IF HasPrefix(s, p) THEN From(s, Len(p) + 1) ELSE s

\* strings.TrimSpace
RECURSIVE TrimLeft(_)
TrimLeft(s) ==
  IF s # << >> /\ Head(s) \in WhiteSpace THEN TrimLeft(Tail(s)) ELSE s

RECURSIVE TrimRight(_)
TrimRight(s) ==
  IF s # << >> /\ s[Len(s)] \in WhiteSpace
  THEN TrimRight(SubSeq(s, 1, Len(s) - 1))
  ELSE s

TrimSpace(s) == TrimRight(TrimLeft(s))

\* strings.Split(s, sep) for a one-character separator
RECURSIVE Split(_, _)
Split(s, sep) ==
  LET i == Index(s, <<sep>>)
  IN  IF i = 0 THEN <<s>>
      ELSE <<SubSeq(s, 1, i - 1)>> \o Split(From(s, i + 1), sep)

\* strings.SplitN(s, sep, n), n >= 1
RECURSIVE SplitN(_, _, _)
SplitN(s, sep, n) ==
  LET i == Index(s, <<sep>>)
  IN  IF n <= 1 \/ i = 0 THEN <<s>>
      ELSE <<SubSeq(s, 1, i - 1)>> \o SplitN(From(s, i + 1), sep, n - 1)

containsOnly(s, set) == \A i \in 1..Len(s) : s[i] \in set

hasLeadingZeroes(s) == Len(s) > 1 /\ s[1] = "0"

DigitVal(c) == Code(c) - Code("0")

\* strconv.ParseUint(s, 10, 64) of a digit string (the modelled tokens are
\* short, so the 64-bit range error cannot arise)
RECURSIVE ParseUint(_)
ParseUint(s) ==
  IF s = << >> THEN 0
  ELSE 10 * ParseUint(SubSeq(s, 1, Len(s) - 1)) + DigitVal(s[Len(s)])

\* Go's string comparison a < b (bytewise lexicographic)
RECURSIVE StrLess(_, _)
StrLess(a, b) ==
  IF b = << >> THEN FALSE
  ELSE IF a = << >> THEN TRUE
  ELSE IF Head(a) # Head(b) THEN Code(Head(a)) < Code(Head(b))
  ELSE StrLess(Tail(a), Tail(b))

(***************************************************************************)
(* ExtractVMDriverVersion                                                  *)
(***************************************************************************)

\* the literal part of the regular expression `version:(.*)`
versionRegex == <<"v", "e", "r", "s", "i", "o", "n", ":">>

\* version.VersionPrefix of k8s.io/minikube/pkg/version
VersionPrefix == <<"v">>

\* a `.` that also matches a line feed: `.*` takes the rest of the text
DotStar_All(s) == s

\* the text `.*` matches from the start of s: up to the first line feed
DotStar(s) ==
  LET nl == Index(s, <<"\n">>)
  IN  IF nl = 0 THEN s ELSE SubSeq(s, 1, nl - 1)

\* FindStringSubmatch: << >> (nil) when there is no match, otherwise
\* <<whole match, group 1>> of the leftmost match
FindStringSubmatch(s) ==
  LET i == Index(s, versionRegex)
  IN  IF i = 0 THEN << >>
      ELSE LET g == DotStar(From(s, i + Len(versionRegex)))
           IN  <<versionRegex \o g, g>>

ExtractVMDriverVersion(s) ==
  LET matches == FindStringSubmatch(s)
  IN  IF Len(matches) # 2 THEN << >>
      ELSE TrimPrefix(TrimSpace(matches[2]), VersionPrefix)

(***************************************************************************)
(* github.com/blang/semver as called from InstallOrUpdate                 *)
(***************************************************************************)

NoVersion == [Major |-> 0, Minor |-> 0, Patch |-> 0, Pre |-> << >>]

\* semver.NewPRVersion: one pre-release identifier
PRValid(s) ==
  /\ s # << >>
  /\ IF containsOnly(s, numbers) THEN ~hasLeadingZeroes(s)
     ELSE containsOnly(s, alphanum)

NewPRVersion(s) ==
  IF containsOnly(s, numbers)
  THEN [IsNum |-> TRUE, VersionNum |-> ParseUint(s), VersionStr |-> << >>]
  ELSE [IsNum |-> FALSE, VersionNum |-> 0, VersionStr |-> s]

NumValid(s) == s # << >> /\ containsOnly(s, numbers) /\ ~hasLeadingZeroes(s)

\* the patch element is cut at the first '+' (build metadata) and then at
\* the first '-' (pre-release), in that order
BuildIndex(p) == Index(p, <<"+">>)
BeforeBuild(p) == IF BuildIndex(p) = 0 THEN p ELSE SubSeq(p, 1, BuildIndex(p) - 1)
BuildIds(p) == IF BuildIndex(p) = 0 THEN << >> ELSE Split(From(p, BuildIndex(p) + 1), ".")
PreIndex(p) == Index(BeforeBuild(p), <<"-">>)
PatchStr(p) ==
  IF PreIndex(p) = 0 THEN BeforeBuild(p) ELSE SubSeq(BeforeBuild(p), 1, PreIndex(p) - 1)
PreIds(p) ==
  IF PreIndex(p) = 0 THEN << >> ELSE Split(From(BeforeBuild(p), PreIndex(p) + 1), ".")

\* semver.Make(s) = semver.Parse(s): [ok |-> FALSE, ...] is the error return
Make(s) ==
  LET parts == SplitN(s, ".", 3)
      bad == [ok |-> FALSE, ver |-> NoVersion]
  IN  IF Len(s) = 0 \/ Len(parts) # 3 THEN bad
      ELSE IF ~NumValid(parts[1]) \/ ~NumValid(parts[2]) THEN bad
      ELSE IF ~NumValid(PatchStr(parts[3])) THEN bad
      ELSE IF \E i \in 1..Len(PreIds(parts[3])) : ~PRValid(PreIds(parts[3])[i]) THEN bad
      ELSE IF \E i \in 1..Len(BuildIds(parts[3])) :
                \/ BuildIds(parts[3])[i] = << >>
                \/ ~containsOnly(BuildIds(parts[3])[i], alphanum) THEN bad
      ELSE [ok |-> TRUE,
            ver |-> [Major |-> ParseUint(parts[1]),
                     Minor |-> ParseUint(parts[2]),
                     Patch |-> ParseUint(PatchStr(parts[3])),
                     Pre |-> [i \in 1..Len(PreIds(parts[3])) |->
                                NewPRVersion(PreIds(parts[3])[i])]]]

\* PRVersion.Compare: -1, 0 or 1
PRCompare(v, o) ==
  IF v.IsNum /\ ~o.IsNum THEN -1
  ELSE IF ~v.IsNum /\ o.IsNum THEN 1
  ELSE IF v.IsNum /\ o.IsNum
       THEN IF v.VersionNum = o.VersionNum THEN 0
            ELSE IF v.VersionNum > o.VersionNum THEN 1 ELSE -1
  ELSE IF v.VersionStr = o.VersionStr THEN 0
       ELSE IF StrLess(o.VersionStr, v.VersionStr) THEN 1 ELSE -1

\* the loop of Version.Compare over the pre-release identifiers, from i on
RECURSIVE PreCompare(_, _, _)
PreCompare(vp, op, i) ==
  IF i <= Len(vp) /\ i <= Len(op)
  THEN IF PRCompare(vp[i], op[i]) = 0 THEN PreCompare(vp, op, i + 1)
       ELSE PRCompare(vp[i], op[i])
  ELSE IF i > Len(vp) /\ i > Len(op) THEN 0
       ELSE IF i > Len(vp) THEN -1 ELSE 1

\* Version.Compare
Compare(v, o) ==
  IF v.Major # o.Major THEN (IF v.Major > o.Major THEN 1 ELSE -1)
  ELSE IF v.Minor # o.Minor THEN (IF v.Minor > o.Minor THEN 1 ELSE -1)
  ELSE IF v.Patch # o.Patch THEN (IF v.Patch > o.Patch THEN 1 ELSE -1)
  ELSE IF Len(v.Pre) = 0 /\ Len(o.Pre) = 0 THEN 0
  ELSE IF Len(v.Pre) = 0 /\ Len(o.Pre) > 0 THEN 1
  ELSE IF Len(v.Pre) > 0 /\ Len(o.Pre) = 0 THEN -1
  ELSE PreCompare(v.Pre, o.Pre, 1)

\* a comparison that also counts an equal version as older
LT_OrEqual(v, o) == Compare(v, o) # 1

\* Version.LT
LT(v, o) == Compare(v, o) = -1

(***************************************************************************)
(* State                                                                   *)
(***************************************************************************)

VARIABLES
  \* InstallOrUpdate(driver, destination, minikubeVersion) and its environment
  driver,            \* the driver argument
  minikubeVersion,   \* the minikubeVersion argument
  lookPathOk,        \* whether exec.LookPath(driver) finds the binary
  cmdOk,             \* whether `driver version` exits successfully
  output,            \* what `driver version` prints
  ipc,               \* position in InstallOrUpdate / download
  v,                 \* local v: the extracted token
  vmDriverVersion,   \* local vmDriverVersion
  target,            \* the file at targetFilepath
  target0,           \* that file when InstallOrUpdate was called
  installRan,        \* download got past its driver-name check
  removeCalls,       \* os.Remove(targetFilepath) calls
  getCalls,          \* client.Get() calls (the Fetcher)
  chmodCalls,        \* os.Chmod(targetFilepath, 0777) calls
  ierr,              \* what InstallOrUpdate returned ("none" while running)
  \* MakeDiskImage(d, boot2dockerURL, diskSize) on one store path
  intBytes,          \* bytes of Go's int in this build: 4 or 8
  diskSize,          \* the diskSize argument, intBytes little-endian bytes
  tarLen,            \* len(tarBuf.Bytes())
  dir,               \* names in the store directory, the disk image apart
  owner,             \* owner of each path: "euid" (creator), "uid", "none"
  disk,              \* the file at diskPath
  frame,             \* per caller: its call's number, position, locals, acts
  calls,             \* MakeDiskImage calls started
  opens,             \* successful os.OpenFile(diskPath, ...) calls
  succeeded,         \* some MakeDiskImage call has returned nil
  \* Restart(d)
  rpc,               \* position in Restart
  machine,           \* the host as the driver left it
  rlog,              \* the driver calls made so far, with what they returned
  rerr,              \* what Restart returned ("none" while running)
  restarts,          \* Restart calls started
  \* ExtractVMDriverVersion(s) applied to a text that grows line by line
  xpc,               \* "idle", "call" (text ready) or "done" (result ready)
  xhead,             \* the text before any later line was added
  xtext,             \* the argument s
  xres,              \* what the last call returned
  xfirst,            \* what the call on xhead returned
  xlines             \* later lines added to xhead

ivars ==
  << driver, minikubeVersion, lookPathOk, cmdOk, output, ipc, v,
     vmDriverVersion, target, target0, installRan, removeCalls, getCalls,
     chmodCalls, ierr >>

dvars ==
  << intBytes, diskSize, tarLen, dir, owner, disk, frame, calls, opens,
     succeeded >>

rvars == << rpc, machine, rlog, rerr, restarts >>

xvars == << xpc, xhead, xtext, xres, xfirst, xlines >>

vars == << ivars, dvars, rvars, xvars >>

(***************************************************************************)
(* InstallOrUpdate and download                                            *)
(***************************************************************************)

KVM2 == "docker-machine-driver-kvm2"

Drivers == {KVM2, "docker-machine-driver-hyperkit", "docker-machine-driver-kvm"}

\* version tokens a driver may print after `version:`
GoodTokens ==
  { <<"v", "1", ".", "0", ".", "0">>,
    <<"v", "0", ".", "9", ".", "9">>,
    <<"v", "1", ".", "0", ".", "1">>,
    <<"1", ".", "0", ".", "0">>,
    <<"v", "1", ".", "0", ".", "1", "-", "r", "c">>,
    <<"v", "1", ".", "0", ".", "0", "+", "b">>,
    <<"v", "0", ".", "1", "0", ".", "0">> }

BadTokens ==
  { <<"a", "b", "c">>,
    <<"v", "1", ".", "0">>,
    <<"v", "v", "1", ".", "0", ".", "0">>,
    <<"v", "0", "1", ".", "0", ".", "0">>,
    <<"v", "1", ".", "0", ".", "0", "-">>,
    <<"1", ".", "0", ".", "0", " ", "b">> }

EmptyTokens == { << >>, <<"v">>, <<" ">> }

commitLine == <<"c", "o", "m", "m", "i", "t", ":", " ", "a", "b", "c", "\n">>

\* the shapes in which a token is printed: the documented one, one with a
\* CRLF line end and a leading line, and one with no line after it
Shapes(tok) ==
  { versionRegex \o <<" ">> \o tok \o <<"\n">> \o commitLine,
    commitLine \o versionRegex \o tok \o <<" ", "\r", "\n">> \o commitLine,
    versionRegex \o <<" ">> \o tok }

OutputsOf(toks) == UNION { Shapes(tok) : tok \in toks }

NoVersionOutputs == { << >>, commitLine, <<"v", "1", ".", "0", ".", "0", "\n">> }

Outputs ==
  OutputsOf(GoodTokens) \cup OutputsOf(BadTokens) \cup OutputsOf(EmptyTokens)
    \cup NoVersionOutputs

MinVersions ==
  { Make(<<"1", ".", "0", ".", "0">>).ver,
    Make(<<"1", ".", "0", ".", "1", "-", "r", "c">>).ver,
    Make(<<"0", ".", "9", ".", "0">>).ver }

NoFile == [exists |-> FALSE, content |-> "none", mode |-> "none"]

Targets ==
  { NoFile,
    [exists |-> TRUE, content |-> "old", mode |-> "0755"],
    [exists |-> TRUE, content |-> "old", mode |-> "0644"] }

(***************************************************************************)
(* Byte counts: little-endian sequences of bytes                           *)
(***************************************************************************)

\* n as w little-endian bytes
RECURSIVE NatBytes(_, _)
NatBytes(n, w) ==
  IF w = 0 THEN << >> ELSE <<n % 256>> \o NatBytes(n \div 256, w - 1)

\* the exact product b * k + carry, as many bytes as it needs
RECURSIVE MulBytes(_, _, _)
MulBytes(b, k, carry) ==
  IF b = << >>
  THEN IF carry = 0 THEN << >>
       ELSE <<carry % 256>> \o MulBytes(<< >>, k, carry \div 256)
  ELSE <<(Head(b) * k + carry) % 256>>
         \o MulBytes(Tail(b), k, (Head(b) * k + carry) \div 256)

\* b without its high-order zero bytes
RECURSIVE Canon(_)
Canon(b) ==
  IF b # << >> /\ b[Len(b)] = 0 THEN Canon(SubSeq(b, 1, Len(b) - 1)) ELSE b

\* b cut or zero-extended to w bytes
Fit(b, w) == [i \in 1..w |-> IF i <= Len(b) THEN b[i] ELSE 0]

\* the sign of a two's-complement value
Negative(b) == b[Len(b)] >= 128

\* bytes in one megabyte as the source counts them (line 88)
MB == 1000000

\* diskSizeMb*1000000 in Go's int: the product modulo 2^(8*intBytes)
IntMul(b, k) == Fit(MulBytes(b, k, 0), Len(b))

\* int64(x) of a non-negative int x
Int64(b) == Fit(b, 8)

\* the value of b when it fits three bytes, and 2^24 otherwise
Small(b) ==
  IF Len(Canon(b)) > 3 THEN 16777216
  ELSE Fit(b, 3)[1] + 256 * Fit(b, 3)[2] + 65536 * Fit(b, 3)[3]

Min(a, b) == IF a <= b THEN a ELSE b

(***************************************************************************)
(* The store directory and the calls of MakeDiskImage                      *)
(***************************************************************************)

Procs == {1, 2}

\* most MakeDiskImage calls in one run
MaxCalls == 3

\* most entries the store directory holds before the first call
MaxExtra == 1

DiskName == "m.rawdisk"

ExtraNames == {"config.json", "sub"}

\* ioutil.ReadDir returns the entries sorted by file name
NameOrder ==
  <<"boot2docker.iso", "config.json", "id_rsa", "id_rsa.pub", DiskName, "sub">>

\* "sub" is a directory holding one file
Paths == {"."} \cup {NameOrder[i] : i \in 1..Len(NameOrder)} \cup {"sub/x"}

\* fixed: fixPermissions has returned nil since the file was created
NoDisk ==
  [exists |-> FALSE, writers |-> {}, written |-> 0, size |-> Int64(<< >>),
   truncated |-> FALSE, fixed |-> FALSE]

NoErr == [msg |-> "none", path |-> ""]

Nil == [msg |-> "nil", path |-> ""]

IdleFrame ==
  [pc |-> "idle", id |-> 0, err |-> NoErr, late |-> FALSE,
   statMissing |-> FALSE,
   opened |-> FALSE, wrote |-> 0, truncs |-> 0, built |-> FALSE,
   files |-> << >>, i |-> 0, chowns |-> << >>, steps |-> << >>]

RestartIdle ==
  /\ rpc = "idle"
  /\ machine = "Running"
  /\ rlog = << >>
  /\ rerr = "none"
  /\ restarts = 0

ExtractIdle ==
  /\ xpc = "idle"
  /\ xhead = << >>
  /\ xtext = << >>
  /\ xres = << >>
  /\ xfirst = << >>
  /\ xlines = 0

DiskIdle ==
  /\ intBytes = 8
  /\ diskSize = NatBytes(0, 8)
  /\ tarLen = 0
  /\ dir = {}
  /\ owner = [q \in Paths |-> "none"]
  /\ disk = NoDisk
  /\ frame = [p \in Procs |-> IdleFrame]
  /\ calls = 0
  /\ opens = 0
  /\ succeeded = FALSE

InitInstall ==
  /\ DiskIdle
  /\ RestartIdle
  /\ ExtractIdle
  /\ driver \in Drivers
  /\ minikubeVersion \in MinVersions
  /\ lookPathOk \in BOOLEAN
  /\ cmdOk \in BOOLEAN
  /\ output \in Outputs
  /\ ipc = "LookPath"
  /\ v = << >>
  /\ vmDriverVersion = NoVersion
  /\ target \in Targets
  /\ target0 = target
  /\ installRan = FALSE
  /\ removeCalls = 0
  /\ getCalls = 0
  /\ chmodCalls = 0
  /\ ierr = "none"

Inputs == << driver, minikubeVersion, lookPathOk, cmdOk, output, target0 >>

\* return err from InstallOrUpdate / download
Return(e) == ipc' = "done" /\ ierr' = e

\* a lookup that reports a missing binary as an error
IOU_LookPath_Fatal ==
  /\ ipc = "LookPath"
  /\ IF lookPathOk
     THEN ipc' = "Output" /\ UNCHANGED ierr
     ELSE Return("executable file not found in $PATH")
  /\ UNCHANGED << Inputs, v, vmDriverVersion, target, installRan,
                  removeCalls, getCalls, chmodCalls >>

\* lines 156-160: exec.LookPath(driver)
IOU_LookPath ==
  /\ ipc = "LookPath"
  /\ ipc' = IF lookPathOk THEN "Output" ELSE "download"
  /\ UNCHANGED << Inputs, v, vmDriverVersion, target, installRan,
                  removeCalls, getCalls, chmodCalls, ierr >>

\* lines 162-174: cmd.Output(), ExtractVMDriverVersion, len(v) == 0
IOU_Output ==
  /\ ipc = "Output"
  /\ IF ~cmdOk
     THEN ipc' = "download" /\ v' = v
     ELSE /\ v' = ExtractVMDriverVersion(output)
          /\ ipc' = IF Len(v') = 0 THEN "download" ELSE "Make"
  /\ UNCHANGED << Inputs, vmDriverVersion, target, installRan,
                  removeCalls, getCalls, chmodCalls, ierr >>

\* a parse step that treats a malformed token like a missing one
IOU_Make_Reinstall ==
  /\ ipc = "Make"
  /\ IF ~Make(v).ok
     THEN ipc' = "download" /\ UNCHANGED vmDriverVersion
     ELSE vmDriverVersion' = Make(v).ver /\ ipc' = "LT"
  /\ UNCHANGED << Inputs, v, target, installRan, removeCalls, getCalls,
                  chmodCalls, ierr >>

\* lines 176-179: semver.Make(v)
IOU_Make ==
  /\ ipc = "Make"
  /\ IF ~Make(v).ok
     THEN Return("can't parse driver version") /\ UNCHANGED vmDriverVersion
     ELSE vmDriverVersion' = Make(v).ver /\ ipc' = "LT" /\ UNCHANGED ierr
  /\ UNCHANGED << Inputs, v, target, installRan, removeCalls, getCalls,
                  chmodCalls >>

\* lines 182-186: vmDriverVersion.LT(minikubeVersion)
IOU_LT ==
  /\ ipc = "LT"
  /\ IF LT(vmDriverVersion, minikubeVersion)
     THEN ipc' = "download" /\ UNCHANGED ierr
     ELSE Return("nil")
  /\ UNCHANGED << Inputs, v, vmDriverVersion, target, installRan,
                  removeCalls, getCalls, chmodCalls >>

\* a name check that lets every docker-machine driver through
SupportedDriver_Any(d) == d \in Drivers

\* lines 191-193: only the kvm2 driver is downloaded
SupportedDriver(d) == d = KVM2

Download_Check ==
  /\ ipc = "download"
  /\ IF ~SupportedDriver(driver)
     THEN Return("nil") /\ UNCHANGED installRan
     ELSE installRan' = TRUE /\ ipc' = "Remove" /\ UNCHANGED ierr
  /\ UNCHANGED << Inputs, v, vmDriverVersion, target, removeCalls,
                  getCalls, chmodCalls >>

\* line 198: os.Remove(targetFilepath), its error ignored
Download_Remove ==
  /\ ipc = "Remove"
  /\ removeCalls' = removeCalls + 1
  /\ target' \in {NoFile, target}
  /\ ipc' = "Get"
  /\ UNCHANGED << Inputs, v, vmDriverVersion, installRan, getCalls,
                  chmodCalls, ierr >>

\* what a failed client.Get() may leave at the destination
AfterFailedGet(t) ==
  {t, NoFile, [exists |-> TRUE, content |-> "partial", mode |-> "0644"]}

\* a fetch whose error is not checked: download goes on to os.Chmod
Download_Get_Unchecked ==
  /\ ipc = "Get"
  /\ getCalls' = getCalls + 1
  /\ \/ target' = [exists |-> TRUE, content |-> "new",
                   mode |-> IF target.exists THEN target.mode ELSE "0644"]
     \/ target' \in AfterFailedGet(target)
  /\ ipc' = "Chmod"
  /\ UNCHANGED << Inputs, v, vmDriverVersion, installRan, removeCalls,
                  chmodCalls, ierr >>

\* lines 210-212: client.Get()
Download_Get ==
  /\ ipc = "Get"
  /\ getCalls' = getCalls + 1
  /\ \/ /\ target' = [exists |-> TRUE, content |-> "new",
                      mode |-> IF target.exists THEN target.mode ELSE "0644"]
        /\ ipc' = "Chmod"
        /\ UNCHANGED ierr
     \/ /\ target' \in AfterFailedGet(target)
        /\ Return("can't download driver")
  /\ UNCHANGED << Inputs, v, vmDriverVersion, installRan, removeCalls,
                  chmodCalls >>

\* lines 214-219: os.Chmod(targetFilepath, 0777)
Download_Chmod ==
  /\ ipc = "Chmod"
  /\ chmodCalls' = chmodCalls + 1
  /\ \/ /\ target.exists
        /\ target' = [target EXCEPT !.mode = "0777"]
        /\ Return("nil")
     \/ /\ UNCHANGED target
        /\ Return("chmod error")
  /\ UNCHANGED << Inputs, v, vmDriverVersion, installRan, removeCalls,
                  getCalls >>

NextInstall ==
  \/ IOU_LookPath /\ UNCHANGED << dvars, rvars, xvars >>
  \/ IOU_Output /\ UNCHANGED << dvars, rvars, xvars >>
  \/ IOU_Make /\ UNCHANGED << dvars, rvars, xvars >>
  \/ IOU_LT /\ UNCHANGED << dvars, rvars, xvars >>
  \/ Download_Check /\ UNCHANGED << dvars, rvars, xvars >>
  \/ Download_Remove /\ UNCHANGED << dvars, rvars, xvars >>
  \/ Download_Get /\ UNCHANGED << dvars, rvars, xvars >>
  \/ Download_Chmod /\ UNCHANGED << dvars, rvars, xvars >>

SpecInstall == InitInstall /\ [][NextInstall]_vars

InstallIdle ==
  /\ driver = KVM2
  /\ minikubeVersion = NoVersion
  /\ lookPathOk = FALSE
  /\ cmdOk = FALSE
  /\ output = << >>
  /\ ipc = "done"
  /\ v = << >>
  /\ vmDriverVersion = NoVersion
  /\ target = NoFile
  /\ target0 = NoFile
  /\ installRan = FALSE
  /\ removeCalls = 0
  /\ getCalls = 0
  /\ chmodCalls = 0
  /\ ierr = "none"

(***************************************************************************)
(* Properties of InstallOrUpdate                                           *)
(***************************************************************************)

\* semantic-version precedence, stated from the ordering rules: major, then
\* minor, then patch; a pre-release precedes its release; pre-release
\* identifiers compare left to right, numeric before alphanumeric, and a
\* shorter list precedes a longer one it is a prefix of
IdBefore(x, y) ==
  \/ x.IsNum /\ ~y.IsNum
  \/ x.IsNum /\ y.IsNum /\ x.VersionNum < y.VersionNum
  \/ ~x.IsNum /\ ~y.IsNum /\ StrLess(x.VersionStr, y.VersionStr)

PreBefore(p, q) ==
  \/ Len(p) > 0 /\ Len(q) = 0
  \/ /\ Len(p) > 0
     /\ Len(q) > 0
     /\ \/ \E i \in 1..Len(p) :
             /\ i <= Len(q)
             /\ \A j \in 1..(i - 1) : p[j] = q[j]
             /\ IdBefore(p[i], q[i])
        \/ Len(p) < Len(q) /\ SubSeq(q, 1, Len(p)) = p

SemverBefore(a, b) ==
  \/ a.Major < b.Major
  \/ a.Major = b.Major /\ a.Minor < b.Minor
  \/ a.Major = b.Major /\ a.Minor = b.Minor /\ a.Patch < b.Patch
  \/ a.Major = b.Major /\ a.Minor = b.Minor /\ a.Patch = b.Patch
       /\ PreBefore(a.Pre, b.Pre)

NoInstallEffects ==
  /\ removeCalls = 0
  /\ getCalls = 0
  /\ chmodCalls = 0
  /\ target = target0

ProbedWellFormed ==
  driver = KVM2 /\ lookPathOk /\ cmdOk /\ output \in OutputsOf(GoodTokens)

V100 == [Major |-> 1, Minor |-> 0, Patch |-> 0, Pre |-> << >>]

\* C1: for the kvm2 driver, with the binary found, `version` succeeding and
\* a well-formed token V, the install step runs exactly when V precedes the
\* minimum version M; when V >= M the call returns nil, and the target file
\* is never removed, fetched or chmod-ed.  With M = 1.0.0: 0.9.9 installs,
\* 1.0.0 and 1.0.1 do not.
C1_InstallIffOlder ==
  /\ (ProbedWellFormed /\ ipc \in {"Remove", "Get", "Chmod", "done"}) =>
       /\ installRan <=> SemverBefore(vmDriverVersion, minikubeVersion)
       /\ ~SemverBefore(vmDriverVersion, minikubeVersion) =>
            ipc = "done" /\ ierr = "nil" /\ NoInstallEffects
  /\ (ProbedWellFormed /\ ipc \notin {"Remove", "Get", "Chmod", "done"}) =>
       ~installRan /\ NoInstallEffects
  /\ (ProbedWellFormed /\ ipc = "done" /\ minikubeVersion = V100) =>
       /\ output \in Shapes(<<"v", "0", ".", "9", ".", "9">>) => installRan
       /\ output \in Shapes(<<"v", "1", ".", "0", ".", "0">>) => ~installRan
       /\ output \in Shapes(<<"v", "1", ".", "0", ".", "1">>) => ~installRan

C1_Witness ==
  /\ ProbedWellFormed
  /\ ipc = "done"
  /\ vmDriverVersion = minikubeVersion
  /\ target0.exists
  /\ ~installRan

\* C2: when the extracted token is non-empty but no semantic version, the
\* call returns the parse error and never installs: no remove, no fetch, no
\* chmod, the target file as it was.
C2_MalformedIsError ==
  (lookPathOk /\ cmdOk /\ output \in OutputsOf(BadTokens)) =>
    /\ NoInstallEffects
    /\ ~installRan
    /\ ipc # "download"
    /\ ipc = "done" => ierr = "can't parse driver version"

C2_Witness ==
  /\ lookPathOk /\ cmdOk /\ output \in OutputsOf(BadTokens)
  /\ driver = KVM2
  /\ target0.exists
  /\ ipc = "done"

ProbeMissing ==
  \/ ~lookPathOk
  \/ ~cmdOk
  \/ output \in NoVersionOutputs \cup OutputsOf(EmptyTokens)

Installed == target = [exists |-> TRUE, content |-> "new", mode |-> "0777"]

\* C3: for the kvm2 driver, a binary that is not found, a failing `version`
\* run and an output without a version token each lead to the install step;
\* the call returns nil exactly when fetch and chmod succeeded, and
\* otherwise the fetch error or the chmod error, nothing else.
C3_MissingLeadsToInstall ==
  (driver = KVM2 /\ ProbeMissing /\ ipc = "done") =>
    /\ installRan
    /\ getCalls = 1
    /\ ierr \in {"nil", "can't download driver", "chmod error"}
    /\ ierr = "nil" <=> Installed
    /\ ierr = "can't download driver" => chmodCalls = 0
    /\ ierr = "chmod error" => chmodCalls = 1 /\ target.mode # "0777"

C3_Witness ==
  /\ driver = KVM2
  /\ ~lookPathOk
  /\ ipc = "done"
  /\ ierr = "nil"
  /\ Installed

\* C4: for every driver name but kvm2, whatever the probe finds, the
\* Fetcher is never invoked and the target file is never removed or
\* chmod-ed.
C4_OtherDriversUntouched ==
  driver # KVM2 =>
    /\ NoInstallEffects
    /\ ~installRan
    /\ ipc \notin {"Remove", "Get", "Chmod"}

C4_Witness ==
  /\ driver # KVM2
  /\ ~lookPathOk
  /\ target0.exists
  /\ ipc = "done"
  /\ ierr = "nil"

\* the fetch has put the new binary at the destination
Fetched == target.exists /\ target.content = "new"

\* C13: the install step removes the stale file, then fetches, then sets
\* the permission bits: no step runs before the one ahead of it, none runs
\* twice (the Fetcher is invoked at most once), os.Chmod runs only after a
\* successful fetch, a failed fetch returns its error with no chmod, a failed
\* chmod returns its error, and nil is returned after the install step only
\* when both the fetch and the chmod succeeded.
C13_InstallOrder ==
  /\ chmodCalls <= getCalls /\ getCalls <= removeCalls /\ removeCalls <= 1
  /\ ipc = "Remove" => removeCalls = 0
  /\ ipc = "Get" => removeCalls = 1 /\ getCalls = 0
  /\ ipc = "Chmod" => getCalls = 1 /\ chmodCalls = 0
  /\ (ipc = "Chmod" \/ chmodCalls = 1) => Fetched
  /\ (installRan /\ ipc = "done") =>
       /\ removeCalls = 1 /\ getCalls = 1
       /\ ~Fetched => ierr = "can't download driver" /\ chmodCalls = 0
       /\ (Fetched /\ target.mode # "0777") =>
            ierr = "chmod error" /\ chmodCalls = 1
       /\ ierr = "nil" => Fetched /\ target.mode = "0777" /\ chmodCalls = 1
       /\ ierr \in {"nil", "can't download driver", "chmod error"}

\* a fetch that failed half-way: the error is returned and the partial file
\* is neither fetched again nor chmod-ed
C13_Witness ==
  /\ installRan
  /\ ipc = "done"
  /\ ierr = "can't download driver"
  /\ target = [exists |-> TRUE, content |-> "partial", mode |-> "0644"]
  /\ removeCalls = 1
  /\ getCalls = 1
  /\ chmodCalls = 0

(***************************************************************************)
(* MakeDiskImage, createRawDiskImage, fixPermissions                       *)
(***************************************************************************)

\* the diskSize arguments tried, per width of int
DiskSizes(w) ==
  IF w = 4
  THEN {NatBytes(0, 4), NatBytes(1, 4), NatBytes(4295, 4), NatBytes(20000, 4)}
  ELSE {NatBytes(20000, 8), <<238, 181, 160, 247, 198, 16, 0, 0>>}

TarLens == {4096}

InitDisk ==
  /\ InstallIdle
  /\ RestartIdle
  /\ ExtractIdle
  /\ intBytes \in {4, 8}
  /\ diskSize \in DiskSizes(intBytes)
  /\ tarLen \in TarLens
  /\ dir \in {e \in SUBSET ExtraNames : Cardinality(e) <= MaxExtra}
  /\ owner = [q \in Paths |->
                IF q = "." \/ q \in dir \/ (q = "sub/x" /\ "sub" \in dir)
                THEN "euid" ELSE "none"]
  /\ disk = NoDisk
  /\ frame = [p \in Procs |-> IdleFrame]
  /\ calls = 0
  /\ opens = 0
  /\ succeeded = FALSE

DiskInputs == << intBytes, diskSize, tarLen >>

\* frame with the fields of p's call updated
Upd(p, f) == frame' = [frame EXCEPT ![p] = f]

At(p, where) == frame[p].pc = where

Goto(p, where) == [frame[p] EXCEPT !.pc = where]

\* frame f with one more step of MakeDiskImage and how it ended, appended to
\* the call's record of steps
Step(f, op, ok) == [f EXCEPT !.steps = Append(@, [op |-> op, ok |-> ok])]

ISO == "CopyIsoToMachineDir"

KEY == "GenerateSSHKey"

STAT == "Stat"

RAW == "createRawDiskImage"

FIX == "fixPermissions"

\* return e from MakeDiskImage
Ret(p, f, m, q) ==
  /\ Upd(p, [f EXCEPT !.pc = "done", !.err = [msg |-> m, path |-> q]])
  /\ succeeded' = (succeeded \/ m = "nil")

\* a new file belongs to the effective user of the creating process
Create(names) == [q \in Paths |-> IF q \in names THEN "euid" ELSE owner[q]]

\* the orchestrator calls MakeDiskImage (line 109)
MDI_Call(p) ==
  /\ frame[p].pc \in {"idle", "done"}
  /\ calls < MaxCalls
  /\ calls' = calls + 1
  /\ Upd(p, [IdleFrame EXCEPT !.pc = "CopyIso", !.id = calls + 1,
                              !.late = succeeded])
  /\ UNCHANGED << DiskInputs, dir, owner, disk, opens, succeeded >>

\* a call that goes on to the key pair whatever the ISO staging returned
MDI_CopyIso_Ignore(p) ==
  /\ At(p, "CopyIso")
  /\ \/ /\ dir' = dir \cup {"boot2docker.iso"}
        /\ owner' = Create({"boot2docker.iso"} \ dir)
        /\ Upd(p, Step(Goto(p, "GenerateSSHKey"), ISO, TRUE))
     \/ /\ Upd(p, Step(Goto(p, "GenerateSSHKey"), ISO, FALSE))
        /\ UNCHANGED << dir, owner >>
  /\ UNCHANGED << DiskInputs, disk, calls, opens, succeeded >>

\* lines 111-114: b2.CopyIsoToMachineDir
MDI_CopyIso(p) ==
  /\ At(p, "CopyIso")
  /\ \/ /\ dir' = dir \cup {"boot2docker.iso"}
        /\ owner' = Create({"boot2docker.iso"} \ dir)
        /\ Upd(p, Step(Goto(p, "GenerateSSHKey"), ISO, TRUE))
        /\ UNCHANGED succeeded
     \/ /\ Ret(p, Step(frame[p], ISO, FALSE), "copy iso to machine dir", "")
        /\ UNCHANGED << dir, owner >>
  /\ UNCHANGED << DiskInputs, disk, calls, opens >>

\* lines 116-120: ssh.GenerateSSHKey(keyPath) writes the pair unless the
\* private key is there already
MDI_GenerateSSHKey(p) ==
  /\ At(p, "GenerateSSHKey")
  /\ \/ /\ dir' = dir \cup {"id_rsa", "id_rsa.pub"}
        /\ owner' = IF "id_rsa" \in dir THEN owner
                    ELSE Create({"id_rsa", "id_rsa.pub"})
        /\ Upd(p, Step(Goto(p, "Stat"), KEY, TRUE))
        /\ UNCHANGED succeeded
     \/ /\ "id_rsa" \notin dir
        /\ Ret(p, Step(frame[p], KEY, FALSE), "generate ssh key", "")
        /\ UNCHANGED << dir, owner >>
  /\ UNCHANGED << DiskInputs, disk, calls, opens >>

\* a call that builds the image without looking for an existing one
MDI_Stat_Always(p) ==
  /\ At(p, "Stat")
  /\ Upd(p, [Step(frame[p], STAT, TRUE) EXCEPT !.pc = "MakeTar",
                                                !.statMissing = TRUE])
  /\ UNCHANGED << DiskInputs, dir, owner, disk, calls, opens, succeeded >>

\* lines 122-124 and 133: os.Stat(diskPath), os.IsNotExist(err)
MDI_Stat(p) ==
  /\ At(p, "Stat")
  /\ IF disk.exists
     THEN Ret(p, Step(frame[p], STAT, TRUE), "nil", "")
     ELSE /\ Upd(p, [Step(frame[p], STAT, TRUE) EXCEPT !.pc = "MakeTar",
                                                        !.statMissing = TRUE])
          /\ UNCHANGED succeeded
  /\ UNCHANGED << DiskInputs, dir, owner, disk, calls, opens >>

\* lines 67-70: mcnutils.MakeDiskImage(sshKeyPath)
CRDI_MakeTar(p) ==
  /\ At(p, "MakeTar")
  /\ \/ Upd(p, Goto(p, "Open")) /\ UNCHANGED succeeded
     \/ Ret(p, Step(frame[p], RAW, FALSE),
            "createRawDiskImage: make disk image", "")
  /\ UNCHANGED << DiskInputs, dir, owner, disk, calls, opens >>

\* an open without O_EXCL: an existing file is opened for writing
CRDI_Open_NoExcl(p) ==
  /\ At(p, "Open")
  /\ \/ /\ disk' = IF disk.exists THEN disk ELSE [NoDisk EXCEPT !.exists = TRUE]
        /\ owner' = IF disk.exists THEN owner ELSE Create({DiskName})
        /\ opens' = opens + 1
        /\ Upd(p, [frame[p] EXCEPT !.pc = "Seek", !.opened = TRUE])
        /\ UNCHANGED succeeded
     \/ /\ Ret(p, Step(frame[p], RAW, FALSE),
               "createRawDiskImage: open", DiskName)
        /\ UNCHANGED << disk, owner, opens >>
  /\ UNCHANGED << DiskInputs, dir, calls >>

\* lines 72-76: os.OpenFile(diskPath, O_CREATE|O_EXCL|O_WRONLY, 0644)
CRDI_Open(p) ==
  /\ At(p, "Open")
  /\ \/ /\ ~disk.exists
        /\ disk' = [NoDisk EXCEPT !.exists = TRUE]
        /\ owner' = Create({DiskName})
        /\ opens' = opens + 1
        /\ Upd(p, [frame[p] EXCEPT !.pc = "Seek", !.opened = TRUE])
        /\ UNCHANGED succeeded
     \/ /\ Ret(p, Step(frame[p], RAW, FALSE),
               "createRawDiskImage: open", DiskName)
        /\ UNCHANGED << disk, owner, opens >>
  /\ UNCHANGED << DiskInputs, dir, calls >>

\* lines 77-79: file.Seek(0, io.SeekStart); the deferred Close runs on return
CRDI_Seek(p) ==
  /\ At(p, "Seek")
  /\ \/ Upd(p, Goto(p, "Write")) /\ UNCHANGED succeeded
     \/ Ret(p, Step(frame[p], RAW, FALSE), "createRawDiskImage: seek", "")
  /\ UNCHANGED << DiskInputs, dir, owner, disk, calls, opens >>

\* the file after n bytes of the container were written from offset 0
Written(p, n) ==
  [disk EXCEPT !.writers = IF n > 0 THEN @ \cup {frame[p].id} ELSE @,
               !.written = IF n > 0 THEN n ELSE @,
               !.size = IF Small(@) < n THEN Int64(NatBytes(n, 3)) ELSE @]

\* lines 81-83: file.Write(tarBuf.Bytes()), all of it or a part and an error
CRDI_Write(p) ==
  /\ At(p, "Write")
  /\ \/ /\ disk' = Written(p, tarLen)
        /\ Upd(p, [frame[p] EXCEPT !.pc = "Close", !.wrote = tarLen])
        /\ UNCHANGED succeeded
     \/ \E n \in {0, tarLen \div 2} :
          /\ disk' = Written(p, n)
          /\ Ret(p, Step([frame[p] EXCEPT !.wrote = n], RAW, FALSE),
                 "createRawDiskImage: write tar", "")
  /\ UNCHANGED << DiskInputs, dir, owner, calls, opens >>

\* lines 84-86: file.Close()
CRDI_Close(p) ==
  /\ At(p, "Close")
  /\ \/ Upd(p, Goto(p, "Truncate")) /\ UNCHANGED succeeded
     \/ Ret(p, Step(frame[p], RAW, FALSE),
            "createRawDiskImage: closing file", DiskName)
  /\ UNCHANGED << DiskInputs, dir, owner, disk, calls, opens >>

\* the size handed to os.Truncate: int64(diskSizeMb*1000000)
TruncateArg == IntMul(diskSize, MB)

\* lines 88-91: os.Truncate(diskPath, int64(diskSizeMb*1000000)); a negative
\* size is refused by the system call
CRDI_Truncate(p) ==
  /\ At(p, "Truncate")
  /\ \/ /\ ~Negative(TruncateArg)
        /\ disk.exists
        /\ disk' = [disk EXCEPT !.size = Int64(TruncateArg),
                                !.written = Min(@, Small(TruncateArg)),
                                !.truncated = TRUE]
        /\ Upd(p, [Step(frame[p], RAW, TRUE) EXCEPT !.pc = "ChownDir",
                                                    !.built = TRUE,
                                                    !.truncs = @ + 1])
        /\ UNCHANGED succeeded
     \/ /\ Ret(p, Step(frame[p], RAW, FALSE),
               "createRawDiskImage: truncate", DiskName)
        /\ UNCHANGED disk
  /\ UNCHANGED << DiskInputs, dir, owner, calls, opens >>

\* one os.Chown(q, uid, egid) and its outcome, appended to the call's log
Logged(p, q, ok) == [frame[p] EXCEPT !.chowns = Append(@, [path |-> q, ok |-> ok])]

Chowned(q) == [owner EXCEPT ![q] = "uid"]

\* fixPermissions returns nil (line 151)
Fixed == [disk EXCEPT !.fixed = disk.exists]

\* lines 137-140: os.Chown(path, ...) on the store directory itself
FP_ChownDir(p) ==
  /\ At(p, "ChownDir")
  /\ \/ /\ owner' = Chowned(".")
        /\ Upd(p, [Logged(p, ".", TRUE) EXCEPT !.pc = "ReadDir"])
        /\ UNCHANGED succeeded
     \/ /\ Ret(p, Step(Logged(p, ".", FALSE), FIX, FALSE),
               "fixing permissions: chown dir", ".")
        /\ UNCHANGED owner
  /\ UNCHANGED << DiskInputs, dir, disk, calls, opens >>

\* the direct children of the store directory, sorted by name
Children == dir \cup (IF disk.exists THEN {DiskName} ELSE {})

ReadDir == SelectSeq(NameOrder, LAMBDA n : n \in Children)

\* lines 141-144 (and 151, 133 when the directory is empty)
FP_ReadDir(p) ==
  /\ At(p, "ReadDir")
  /\ \/ IF ReadDir = << >>
        THEN Ret(p, Step(frame[p], FIX, TRUE), "nil", "") /\ disk' = Fixed
        ELSE /\ Upd(p, [frame[p] EXCEPT !.pc = "ChownFile", !.files = ReadDir,
                                        !.i = 1])
             /\ UNCHANGED << succeeded, disk >>
     \/ /\ Ret(p, Step(frame[p], FIX, FALSE),
               "fixing permissions: read dir", ".")
        /\ UNCHANGED disk
  /\ UNCHANGED << DiskInputs, dir, owner, calls, opens >>

\* a loop that goes on to the next file after a failed chown
FP_ChownFile_Swallow(p) ==
  /\ At(p, "ChownFile")
  /\ \E ok \in BOOLEAN :
       LET fp == frame[p].files[frame[p].i]
       IN  /\ owner' = IF ok THEN Chowned(fp) ELSE owner
           /\ IF frame[p].i = Len(frame[p].files)
              THEN /\ Ret(p, Step(Logged(p, fp, ok), FIX, TRUE), "nil", "")
                   /\ disk' = Fixed
              ELSE /\ Upd(p, [Logged(p, fp, ok) EXCEPT !.i = @ + 1])
                   /\ UNCHANGED << succeeded, disk >>
  /\ UNCHANGED << DiskInputs, dir, calls, opens >>

\* lines 145-151 and 133: one turn of the loop; after the last file
\* fixPermissions and MakeDiskImage return nil
FP_ChownFile(p) ==
  /\ At(p, "ChownFile")
  /\ LET fp == frame[p].files[frame[p].i]
     IN  \/ /\ owner' = Chowned(fp)
            /\ IF frame[p].i = Len(frame[p].files)
               THEN /\ Ret(p, Step(Logged(p, fp, TRUE), FIX, TRUE), "nil", "")
                    /\ disk' = Fixed
               ELSE /\ Upd(p, [Logged(p, fp, TRUE) EXCEPT !.i = @ + 1])
                    /\ UNCHANGED << succeeded, disk >>
         \/ /\ Ret(p, Step(Logged(p, fp, FALSE), FIX, FALSE),
                   "fixing permissions: chown file", fp)
            /\ UNCHANGED << owner, disk >>
  /\ UNCHANGED << DiskInputs, dir, calls, opens >>

AtRest == \A p \in Procs : frame[p].pc \in {"idle", "done"}

\* callers that do not serialize: a call may start while another runs
NextDisk ==
  \E p \in Procs :
    \/ MDI_Call(p) /\ UNCHANGED << ivars, rvars, xvars >>
    \/ MDI_CopyIso(p) /\ UNCHANGED << ivars, rvars, xvars >>
    \/ MDI_GenerateSSHKey(p) /\ UNCHANGED << ivars, rvars, xvars >>
    \/ MDI_Stat(p) /\ UNCHANGED << ivars, rvars, xvars >>
    \/ CRDI_MakeTar(p) /\ UNCHANGED << ivars, rvars, xvars >>
    \/ CRDI_Open(p) /\ UNCHANGED << ivars, rvars, xvars >>
    \/ CRDI_Seek(p) /\ UNCHANGED << ivars, rvars, xvars >>
    \/ CRDI_Write(p) /\ UNCHANGED << ivars, rvars, xvars >>
    \/ CRDI_Close(p) /\ UNCHANGED << ivars, rvars, xvars >>
    \/ CRDI_Truncate(p) /\ UNCHANGED << ivars, rvars, xvars >>
    \/ FP_ChownDir(p) /\ UNCHANGED << ivars, rvars, xvars >>
    \/ FP_ReadDir(p) /\ UNCHANGED << ivars, rvars, xvars >>
    \/ FP_ChownFile(p) /\ UNCHANGED << ivars, rvars, xvars >>

\* callers that serialize access to the store path: successive calls
NextDiskSeq ==
  \E p \in Procs :
    \/ AtRest /\ MDI_Call(p) /\ UNCHANGED << ivars, rvars, xvars >>
    \/ MDI_CopyIso(p) /\ UNCHANGED << ivars, rvars, xvars >>
    \/ MDI_GenerateSSHKey(p) /\ UNCHANGED << ivars, rvars, xvars >>
    \/ MDI_Stat(p) /\ UNCHANGED << ivars, rvars, xvars >>
    \/ CRDI_MakeTar(p) /\ UNCHANGED << ivars, rvars, xvars >>
    \/ CRDI_Open(p) /\ UNCHANGED << ivars, rvars, xvars >>
    \/ CRDI_Seek(p) /\ UNCHANGED << ivars, rvars, xvars >>
    \/ CRDI_Write(p) /\ UNCHANGED << ivars, rvars, xvars >>
    \/ CRDI_Close(p) /\ UNCHANGED << ivars, rvars, xvars >>
    \/ CRDI_Truncate(p) /\ UNCHANGED << ivars, rvars, xvars >>
    \/ FP_ChownDir(p) /\ UNCHANGED << ivars, rvars, xvars >>
    \/ FP_ReadDir(p) /\ UNCHANGED << ivars, rvars, xvars >>
    \/ FP_ChownFile(p) /\ UNCHANGED << ivars, rvars, xvars >>

SpecDisk == InitDisk /\ [][NextDisk]_vars

SpecDiskSeq == InitDisk /\ [][NextDiskSeq]_vars

(***************************************************************************)
(* Properties of MakeDiskImage                                             *)
(***************************************************************************)

\* sizeMB * 1,000,000 without overflow
DeclaredSize == Canon(MulBytes(diskSize, MB, 0))

CompleteImage ==
  /\ disk.written = tarLen
  /\ disk.truncated
  /\ Canon(disk.size) = DeclaredSize

\* C5: creation is all-or-nothing: a file at the disk image path, also one
\* left by a createRawDiskImage that aborted at write, close or truncate,
\* holds the whole container and has the declared size; and an existing
\* image is not opened for writing again.  Stated here for the states in
\* which no call is in progress, where the claim is at its weakest.
C5_AllOrNothing ==
  /\ (AtRest /\ disk.exists) => CompleteImage
  /\ opens <= 1

\* C9: when createRawDiskImage has returned nil, the file at diskPath has
\* exactly sizeMB * 1,000,000 bytes.
C9_ExactSize ==
  \A p \in Procs : frame[p].built => Canon(disk.size) = DeclaredSize

Skipped(f) ==
  /\ ~f.statMissing
  /\ ~f.opened
  /\ f.wrote = 0
  /\ f.truncs = 0
  /\ f.chowns = << >>
  /\ f.pc \in {"CopyIso", "GenerateSSHKey", "Stat", "done"}

\* C6 as claimed: of two successive calls the first of which returned nil,
\* the second builds nothing, skips the ownership fix, leaves the image as
\* it is and returns nil, so that the image was built exactly once.
C6_SecondCallSucceeds ==
  \A p \in Procs :
    (frame[p].late /\ frame[p].id = 2) =>
      /\ opens = 1
      /\ Skipped(frame[p])
      /\ frame[p].pc = "done" => frame[p].err = Nil

\* C6 as amended: the same of every call made after a call has returned
\* nil, except that such a call returns the ISO staging error when its ISO
\* staging fails; it returns nil whenever it gets as far as the existence
\* check.
C6_SecondCallSkips ==
  /\ succeeded => opens = 1 /\ disk.exists
  /\ \A p \in Procs :
       frame[p].late =>
         /\ Skipped(frame[p])
         /\ frame[p].pc = "done" =>
              frame[p].err.msg \in {"nil", "copy iso to machine dir"}

C6_Witness ==
  \E p \in Procs :
    /\ frame[p].late
    /\ frame[p].pc = "done"
    /\ frame[p].err = Nil
    /\ disk.truncated
    /\ opens = 1

LostRace(f) == f.statMissing /\ ~f.opened /\ f.pc = "done"

\* C7: when two calls both pass the existence check before the file is
\* there, at most one opens diskPath; the other returns the open error, has
\* written nothing and resized nothing, and the file holds the bytes of one
\* writer.
C7_ExclusiveCreate ==
  /\ opens <= 1
  /\ Cardinality(disk.writers) <= 1
  /\ \A p \in Procs :
       /\ ~frame[p].opened => frame[p].wrote = 0 /\ frame[p].truncs = 0
       /\ frame[p].opened => disk.writers \subseteq {frame[p].id}
       /\ LostRace(frame[p]) =>
            frame[p].err.msg \in {"createRawDiskImage: open",
                                  "createRawDiskImage: make disk image"}

C7_Witness ==
  \E p, q \in Procs :
    /\ p # q
    /\ frame[p].statMissing /\ frame[p].opened /\ frame[p].wrote = tarLen
    /\ LostRace(frame[q])
    /\ frame[q].err = [msg |-> "createRawDiskImage: open", path |-> DiskName]
    /\ disk.writers = {frame[p].id}

\* the targets fixPermissions goes through, in order
ChownTargets(f) == <<".">> \o f.files

\* C10: fixPermissions chowns the directory first and then each of its N
\* direct children once, in directory order, never a file below a
\* subdirectory; it returns nil after N+1 successful chowns, and a failed
\* chown is the last one made and the returned error names its target.
C10_FixPermissions ==
  \A p \in Procs :
    LET f == frame[p]
        n == Len(f.chowns)
    IN  /\ n <= Len(ChownTargets(f))
        /\ \A k \in 1..n : f.chowns[k].path = ChownTargets(f)[k]
        /\ \A k \in 1..(n - 1) : f.chowns[k].ok
        /\ f.files # << >> => f.files = ReadDir
        /\ \A j, k \in 1..Len(f.files) : f.files[j] = f.files[k] => j = k
        /\ owner["sub/x"] # "uid"
        /\ (f.pc = "done" /\ f.err = Nil /\ f.built) =>
             /\ n = Cardinality(Children) + 1
             /\ \A k \in 1..n : f.chowns[k].ok
             /\ \A q \in Children \cup {"."} : owner[q] = "uid"
        /\ (n > 0 /\ ~f.chowns[n].ok) =>
             /\ f.pc = "done"
             /\ f.err.path = f.chowns[n].path
             /\ f.err.msg = IF n = 1 THEN "fixing permissions: chown dir"
                            ELSE "fixing permissions: chown file"

C10_Witness ==
  \E p \in Procs :
    /\ frame[p].pc = "done"
    /\ "sub" \in dir
    /\ Len(frame[p].chowns) = 4
    /\ ~frame[p].chowns[4].ok
    /\ frame[p].err = [msg |-> "fixing permissions: chown file", path |-> "id_rsa.pub"]

\* the steps of MakeDiskImage in the order of lines 112-131
StepOrder == <<ISO, KEY, STAT, RAW, FIX>>

\* the errors MakeDiskImage returns when a step fails
StepErrors(op) ==
  CASE op = ISO -> {"copy iso to machine dir"}
    [] op = KEY -> {"generate ssh key"}
    [] op = RAW -> {"createRawDiskImage: make disk image",
                    "createRawDiskImage: open", "createRawDiskImage: seek",
                    "createRawDiskImage: write tar",
                    "createRawDiskImage: closing file",
                    "createRawDiskImage: truncate"}
    [] op = FIX -> {"fixing permissions: chown dir",
                    "fixing permissions: read dir",
                    "fixing permissions: chown file"}
    [] OTHER -> {}

\* C12: every MakeDiskImage call takes its steps in the order ISO staging,
\* key generation, existence check, raw disk creation, ownership fix; a
\* step that fails is the last one of its call, so a failed ISO staging is
\* followed by no key generation and no disk file, a failed key generation
\* by no disk file, a failed raw disk creation by no chown; and the error
\* returned is the one that wraps the failed step.
C12_StepsInOrder ==
  \A p \in Procs :
    LET f == frame[p]
        n == Len(f.steps)
    IN  /\ n <= Len(StepOrder)
        /\ \A k \in 1..n : f.steps[k].op = StepOrder[k]
        /\ \A k \in 1..(n - 1) : f.steps[k].ok
        /\ f.opened => n >= 3
        /\ f.chowns # << >> => n >= 4 /\ f.steps[4].ok
        /\ f.pc = "done" =>
             /\ n >= 1
             /\ f.steps[n].ok <=> f.err.msg = "nil"
             /\ f.steps[n].ok => f.steps[n].op \in {STAT, FIX}
             /\ ~f.steps[n].ok => f.err.msg \in StepErrors(f.steps[n].op)
             /\ f.err.msg \in StepErrors(ISO) =>
                  n = 1 /\ ~f.opened /\ f.chowns = << >>
             /\ f.err.msg \in StepErrors(KEY) =>
                  n = 2 /\ ~f.opened /\ f.chowns = << >>
             /\ f.err.msg \in StepErrors(RAW) => n = 4 /\ f.chowns = << >>
             /\ f.err.msg \in StepErrors(FIX) => n = 5
             /\ calls = 1 =>
                  /\ f.err.msg \in StepErrors(ISO) =>
                       "id_rsa" \notin dir /\ ~disk.exists
                  /\ f.err.msg \in StepErrors(KEY) => ~disk.exists
                  /\ f.err.msg \in StepErrors(RAW) =>
                       \A q \in Paths : owner[q] # "uid"

\* a first call whose raw disk creation failed at os.Truncate: the file is
\* there, nothing was chown-ed
C12_Witness ==
  \E p \in Procs :
    /\ calls = 1
    /\ frame[p].pc = "done"
    /\ frame[p].err = [msg |-> "createRawDiskImage: truncate", path |-> DiskName]
    /\ frame[p].steps =
         << [op |-> ISO, ok |-> TRUE], [op |-> KEY, ok |-> TRUE],
            [op |-> STAT, ok |-> TRUE], [op |-> RAW, ok |-> FALSE] >>
    /\ disk.exists
    /\ frame[p].chowns = << >>
    /\ \A q \in Paths : owner[q] # "uid"

\* C14: whenever a MakeDiskImage call has returned nil and the file at
\* diskPath exists, fixPermissions has returned nil at some point since that
\* file was created; so a call that follows one whose fixPermissions failed,
\* or whose createRawDiskImage failed after opening the file, does not
\* return nil while the ownership is unfixed.
C14_SuccessMeansOwnershipFixed ==
  \A p \in Procs :
    (frame[p].pc = "done" /\ frame[p].err.msg = "nil" /\ disk.exists)
      => disk.fixed

(***************************************************************************)
(* Restart                                                                 *)
(***************************************************************************)

\* most Restart calls in one run
MaxRestarts == 3

\* errors a driver's Stop or Start may return
DriverErrors == {"timeout", "no such host"}

DriverResults == {"nil"} \cup DriverErrors

Event(op, e) == [op |-> op, err |-> e, call |-> restarts]

InitRestart ==
  /\ InstallIdle
  /\ DiskIdle
  /\ ExtractIdle
  /\ rpc = "idle"
  /\ machine \in {"Running", "Stopped"}
  /\ rlog = << >>
  /\ rerr = "none"
  /\ restarts = 0

\* a caller invokes Restart(d) (line 100)
R_Call ==
  /\ rpc \in {"idle", "done"}
  /\ restarts < MaxRestarts
  /\ restarts' = restarts + 1
  /\ rpc' = "Stop"
  /\ rerr' = "none"
  /\ UNCHANGED << machine, rlog >>

\* a Restart that goes on to Start whatever Stop returned
R_Stop_Ignore ==
  /\ rpc = "Stop"
  /\ \E e \in DriverResults :
       /\ rlog' = Append(rlog, Event("Stop", e))
       /\ machine' = IF e = "nil" THEN "Stopped" ELSE machine
       /\ rpc' = "Start"
       /\ UNCHANGED rerr
  /\ UNCHANGED restarts

\* lines 101-103: d.Stop()
R_Stop ==
  /\ rpc = "Stop"
  /\ \E e \in DriverResults :
       /\ rlog' = Append(rlog, Event("Stop", e))
       /\ machine' = IF e = "nil" THEN "Stopped" ELSE machine
       /\ IF e # "nil"
          THEN rpc' = "done" /\ rerr' = e
          ELSE rpc' = "Start" /\ UNCHANGED rerr
  /\ UNCHANGED restarts

\* line 105: return d.Start()
R_Start ==
  /\ rpc = "Start"
  /\ \E e \in DriverResults :
       /\ rlog' = Append(rlog, Event("Start", e))
       /\ machine' = IF e = "nil" THEN "Running" ELSE machine
       /\ rpc' = "done"
       /\ rerr' = e
  /\ UNCHANGED restarts

NextRestart ==
  \/ R_Call /\ UNCHANGED << ivars, dvars, xvars >>
  \/ R_Stop /\ UNCHANGED << ivars, dvars, xvars >>
  \/ R_Start /\ UNCHANGED << ivars, dvars, xvars >>

SpecRestart == InitRestart /\ [][NextRestart]_vars

(***************************************************************************)
(* Properties of Restart                                                   *)
(***************************************************************************)

\* the driver calls of the Restart in progress or last returned
ThisCall == SelectSeq(rlog, LAMBDA ev : ev.call = restarts)

\* C8: Restart calls Stop first and Start only after Stop returned nil; if
\* Stop fails Start is not called and Restart returns Stop's error; if Stop
\* succeeds Start is called exactly once and Restart returns its result.
C8_RestartStopThenStart ==
  /\ Len(ThisCall) <= 2
  /\ Len(ThisCall) >= 1 => ThisCall[1].op = "Stop"
  /\ Len(ThisCall) = 2 => ThisCall[1].err = "nil" /\ ThisCall[2].op = "Start"
  /\ rpc = "Start" => Len(ThisCall) = 1
  /\ rpc = "done" =>
       /\ Len(ThisCall) >= 1
       /\ ThisCall[1].err # "nil" => Len(ThisCall) = 1 /\ rerr = ThisCall[1].err
       /\ ThisCall[1].err = "nil" => Len(ThisCall) = 2 /\ rerr = ThisCall[2].err

C8_Witness ==
  /\ rpc = "done"
  /\ restarts = 2
  /\ Len(rlog) = 3
  /\ rlog[1] = [op |-> "Stop", err |-> "nil", call |-> 1]
  /\ rlog[2] = [op |-> "Start", err |-> "timeout", call |-> 1]
  /\ rlog[3] = [op |-> "Stop", err |-> "no such host", call |-> 2]
  /\ rerr = "no such host"

(***************************************************************************)
(* ExtractVMDriverVersion applied to texts that grow by later lines        *)
(***************************************************************************)

\* most later lines added to one text
MaxLines == 2

\* what may stand after `version:` on its line
XTokens ==
  { <<"v", "1", ".", "2", ".", "3">>,
    <<"1", ".", "2", ".", "3">>,
    <<"v", "v", "1", ".", "2", ".", "3">>,
    << >>,
    <<"v">>,
    <<"v", "1", ".", "2", ".", "3", " ", "b">> }

\* what may stand before `version:`: nothing, a line, or more of its own line
XLeads == { << >>, commitLine, <<"d", "r", "i", "v", "e", "r", "-">> }

XGaps == { << >>, <<" ">>, <<"\t", " ">> }

XEnds == { << >>, <<"\n">>, <<" ", "\r", "\n">> }

VersionHeads ==
  { l \o versionRegex \o g \o tok \o e :
      l \in XLeads, g \in XGaps, tok \in XTokens, e \in XEnds }

NoVersionHeads ==
  { << >>,
    commitLine,
    <<"v", "e", "r", "s", "i", "o", "n", " ", "v", "1", ".", "2", ".", "3", "\n">>,
    <<"v", "1", ".", "2", ".", "3", "\n">> }

LaterLines ==
  { commitLine,
    <<"v", "e", "r", "s", "i", "o", "n", ":", " ", "v", "9", ".", "9", ".", "9", "\n">>,
    <<"\r", "\n">> }

InitExtract ==
  /\ InstallIdle
  /\ DiskIdle
  /\ RestartIdle
  /\ xpc = "call"
  /\ xhead \in VersionHeads \cup NoVersionHeads
  /\ xtext = xhead
  /\ xres = << >>
  /\ xfirst = << >>
  /\ xlines = 0

\* a call ExtractVMDriverVersion(xtext) (lines 227-237)
X_Extract ==
  /\ xpc = "call"
  /\ xres' = ExtractVMDriverVersion(xtext)
  /\ xfirst' = IF xlines = 0 THEN xres' ELSE xfirst
  /\ xpc' = "done"
  /\ UNCHANGED << xhead, xtext, xlines >>

\* the probed program prints one more line after what it printed so far
X_AddLine(l) ==
  /\ xpc = "done"
  /\ xlines < MaxLines
  /\ xtext' =
       IF xtext # << >> /\ xtext[Len(xtext)] # "\n"
       THEN xtext \o <<"\n">> \o l
       ELSE xtext \o l
  /\ xlines' = xlines + 1
  /\ xpc' = "call"
  /\ UNCHANGED << xhead, xres, xfirst >>

NextExtract ==
  \/ X_Extract /\ UNCHANGED << ivars, dvars, rvars >>
  \/ \E l \in LaterLines : X_AddLine(l) /\ UNCHANGED << ivars, dvars, rvars >>

SpecExtract == InitExtract /\ [][NextExtract]_vars

(***************************************************************************)
(* Properties of ExtractVMDriverVersion                                    *)
(***************************************************************************)

\* `version:` stands at position i of s
Occurs(s, i) ==
  /\ i + 7 <= Len(s)
  /\ SubSeq(s, i, i + 7) = <<"v", "e", "r", "s", "i", "o", "n", ":">>

HasVersion(s) == \E i \in 1..Len(s) : Occurs(s, i)

\* the first line of s that holds `version:`
FirstVersionLine(s) ==
  LET ls == Split(s, "\n")
      k  == CHOOSE k \in 1..Len(ls) :
              HasVersion(ls[k]) /\ \A j \in 1..(k - 1) : ~HasVersion(ls[j])
  IN  ls[k]

\* what follows the first `version:` of line l
AfterVersion(l) ==
  LET i == CHOOSE i \in 1..Len(l) :
             Occurs(l, i) /\ \A j \in 1..(i - 1) : ~Occurs(l, j)
  IN  SubSeq(l, i + 8, Len(l))

Blank(c) == c \in {" ", "\t", "\r", "\n"}

\* r is what is left of u when the blanks at both ends are dropped
IsTrimOf(r, u) ==
  \E i \in 1..(Len(u) + 1) : \E j \in (i - 1)..Len(u) :
    /\ r = SubSeq(u, i, j)
    /\ \A k \in 1..(i - 1) : Blank(u[k])
    /\ \A k \in (j + 1)..Len(u) : Blank(u[k])
    /\ r # << >> => ~Blank(r[1]) /\ ~Blank(r[Len(r)])

Unprefixed(r) == IF r # << >> /\ r[1] = "v" THEN Tail(r) ELSE r

\* the results the description allows for a text that holds `version:`
Described(s) ==
  LET u == AfterVersion(FirstVersionLine(s))
      parts == { SubSeq(u, i, j) : i \in 1..(Len(u) + 1), j \in 0..Len(u) }
  IN  { Unprefixed(r) : r \in { q \in parts : IsTrimOf(q, u) } }

====
